---- MODULE Spec2Model ----
(***************************************************************************)
(* Poll engine, message ledger, session registry and synchronization feed  *)
(* of app.py (Flask + sqlite3).                                            *)
(*                                                                         *)
(* Time: datetime.utcnow() is the variable clock; it never decreases, and  *)
(* any number of reads may return the same value (finite resolution).      *)
(* One unit of clock is six hours, so POLL_DURATION (6 h) is 1 and         *)
(* SESSION_TTL (12 h) is 2.  isoformat() strings of one fixed format       *)
(* compare as the instants they denote, so timestamps are integers.        *)
(*                                                                         *)
(* Storage: one sqlite database.  A connection that has executed BEGIN     *)
(* IMMEDIATE, or its first INSERT/UPDATE/DELETE (python's implicit BEGIN), *)
(* holds the single write lock until commit, rollback or close.  A handler *)
(* is cut into steps only where another request can observably interleave: *)
(* between a read made before the lock is taken and the locked part, and   *)
(* inside vote between the expiry check and the write (two clock reads).   *)
(* While the lock is held no other connection writes, and readers see the  *)
(* last committed state, so the locked part of a handler is one step that  *)
(* ends with its commit (or rollback).  A request that finds the lock held *)
(* waits (sqlite3's busy timeout); the timeout expiring is not modelled.   *)
(*                                                                         *)
(* Requests in flight: pc maps each request slot to the position and the   *)
(* locals of the handler it is running.  A slot serves one endpoint.       *)
(***************************************************************************)
EXTENDS Integers, Sequences, FiniteSets, TLC

\* ---------------------------------------------------------------- bounds
MaxClock == 1
MaxSweepClock == 2
MaxPolls == 1
MaxMsgs == 1
MaxLedgerMsgs == 2
MaxTokens == 3

\* ------------------------------------------------------ program constants
MAX_OPTIONS == 6
POLL_DURATION == 1
SESSION_TTL == 2

\* ----------------------------------------------------------- input sets
Users == {"alice", "bob"}
Creators == {"alice"}
Senders == {"bob"}
OptionCounts == {1, 2, 7}
ValidOptionCounts == {2}
PollOptionCounts == {1, 2, 6, 7}
OptionInputs == {-1, 0, 1, 2}
PollIdInputs == 1..(MaxPolls + 1)
TokenInputs == 0..MaxTokens
\* last_seen of a session started before time 0: 18 h and 12 h before
AgedTimes == {-3, -2}

\* ---------------------------------------------------------- request slots
ChatSlots == {"chat1"}
LedgerSlots == {"chat1", "chat2"}
PollSlots == {"poll1"}
SessionSlots == {"session1", "session2"}
VoteSlot == "vote"
Reader == "fetch"
Slots == LedgerSlots \cup PollSlots \cup SessionSlots \cup {VoteSlot, Reader}

NoToken == 0
NoCursor == -1
NoVote == -2
NoSession == [token |-> NoToken, last_seen |-> -1]
Idle == [at |-> "idle"]

\* A response: the endpoint, the outcome and the body (the feed items).  prev
\* is history: the option the voter held when a vote request was answered.
Reply(op, status) == [op |-> op, status |-> status, items |-> <<>>, prev |-> NoVote]
NoReply == Reply("none", "none")

VARIABLES
    clock,       \* datetime.utcnow()
    sessions,    \* table sessions: username -> row, or NoSession
    nextToken,   \* secrets.token_urlsafe: the next unused token
    polls,       \* table polls (+ number of poll_options rows), index = id
    poll_votes,  \* table poll_votes: set of rows
    messages,    \* table messages, index = id
    lock,        \* the slot holding the sqlite write lock across steps, or "none"
    pc,          \* each request slot: position and locals of its handler
    resp,        \* the response sent by the step just taken (NoReply if none)
    cursor,      \* the polling client's stored cursor (sort_at of last item)
    seen,        \* history: ids of chat messages delivered to the poller
    owed,        \* history: per poll, the kinds of change since its last delivery
    closed_by    \* history: what first closed each poll

vars == <<clock, sessions, nextToken, polls, poll_votes, messages, lock, pc,
          resp, cursor, seen, owed, closed_by>>

dbvars == <<sessions, nextToken, polls, poll_votes, messages>>
clientvars == <<cursor, seen>>
histvars == <<owed, closed_by>>

\* ----------------------------------------------------------------- helpers
PollIds == 1..Len(polls)

RECURSIVE SumTo(_, _)
SumTo(f, n) == IF n = 0 THEN 0 ELSE f[n] + SumTo(f, n - 1)

\* sum(list)
Sum(s) == SumTo(s, Len(s))

\* ---------------------------------------------------------------- sessions
\* ensure_session, line 191: last_seen < utcnow() - SESSION_TTL
SessionStale(row, now) == row.last_seen < now - SESSION_TTL

\* ensure_session, up to its return value: the SELECT, the token test and the
\* staleness test.  (The DELETE of a stale row is rolled back by every caller:
\* chat and new_poll close the connection, vote and close_poll roll back.)
ensure_session(u, tk) ==
    IF tk = NoToken THEN FALSE
    ELSE IF sessions[u] = NoSession \/ sessions[u].token # tk THEN FALSE
    ELSE IF SessionStale(sessions[u], clock) THEN FALSE
    ELSE TRUE

\* UPDATE sessions SET last_seen = ? WHERE username = ?
TouchSession(tbl, u, t) ==
    IF tbl[u] = NoSession THEN tbl
    ELSE [tbl EXCEPT ![u].last_seen = t]

\* create_session, lines 494-501: the SELECT and the Conflict test.
CreateSessionBegin(w, u) ==
    /\ pc[w].at = "idle"
    /\ nextToken <= MaxTokens
    /\ IF sessions[u] # NoSession /\ ~SessionStale(sessions[u], clock)
       THEN /\ resp' = Reply("session", "Conflict")
            /\ pc' = pc
       ELSE /\ pc' = [pc EXCEPT ![w] = [at |-> "session_write", user |-> u, now |-> clock,
                                        had |-> (sessions[u] # NoSession)]]
            /\ resp' = NoReply
    /\ UNCHANGED <<clock, dbvars, lock, clientvars, histvars>>

\* create_session, lines 502-512: DELETE of the row seen, INSERT, commit.
\* The INSERT fails on PRIMARY KEY (username): the exception rolls back.
CreateSessionWrite(w) ==
    /\ pc[w].at = "session_write"
    /\ lock = "none"
    /\ LET u == pc[w].user
           afterDelete == IF pc[w].had THEN [sessions EXCEPT ![u] = NoSession]
                          ELSE sessions
           now == IF pc[w].had THEN clock ELSE pc[w].now
       IN  IF afterDelete[u] # NoSession
           THEN /\ resp' = Reply("session", "IntegrityError")
                /\ UNCHANGED <<sessions, nextToken>>
           ELSE /\ sessions' = [afterDelete EXCEPT
                                   ![u] = [token |-> nextToken, last_seen |-> now]]
                /\ nextToken' = nextToken + 1
                /\ resp' = Reply("session", "Token")
    /\ pc' = [pc EXCEPT ![w] = Idle]
    /\ UNCHANGED <<clock, polls, poll_votes, messages, lock, clientvars, histvars>>

\* ------------------------------------------------------------ message ledger
\* chat (POST), lines 464-467: ensure_session before the write lock is taken.
ChatBegin(w, u, tk) ==
    /\ pc[w].at = "idle"
    /\ IF ensure_session(u, tk)
       THEN /\ pc' = [pc EXCEPT ![w] = [at |-> "chat_write", user |-> u, ls |-> clock]]
            /\ resp' = NoReply
       ELSE /\ resp' = Reply("chat", "Unauthorized")
            /\ pc' = pc
    /\ UNCHANGED <<clock, dbvars, lock, clientvars, histvars>>

\* mutant of MessageRow: created_at read before the write lock is taken
MessageRowEarly(w) == [created_at |-> pc[w].ls, username |-> pc[w].user]

\* chat (POST), lines 468-472: the row inserted, created_at = iso_now() read
\* while the write lock is held
MessageRow(w) == [created_at |-> clock, username |-> pc[w].user]

\* chat (POST), lines 194-197 and 468-474: UPDATE sessions, INSERT, commit.
ChatWrite(w) ==
    /\ pc[w].at = "chat_write"
    /\ lock = "none"
    /\ sessions' = TouchSession(sessions, pc[w].user, pc[w].ls)
    /\ messages' = Append(messages, MessageRow(w))
    /\ resp' = Reply("chat", "NoContent")
    /\ pc' = [pc EXCEPT ![w] = Idle]
    /\ UNCHANGED <<clock, nextToken, polls, poll_votes, lock, clientvars, histvars>>

\* ------------------------------------------------------------- poll engine
\* mutant of poll_is_expired: strict comparison
poll_is_expired_strict(row) == row.expires_at < clock

\* poll_is_expired: expires_at <= utcnow()
poll_is_expired(row) == row.expires_at <= clock

\* mutant of OptionInRange: the upper bound forgotten
OptionInRangeNoUpper(idx, option_count) == 0 <= idx

\* mutant of OptionInRange: the lower bound forgotten
OptionInRangeNoLower(idx, option_count) == idx < option_count

\* vote, line 612: 0 <= idx < option_count
OptionInRange(idx, option_count) == 0 <= idx /\ idx < option_count

\* PRIMARY KEY (poll_id, username) of poll_votes
VoteKeyTaken(rows, p, u) == \E r \in rows : r.poll_id = p /\ r.username = u

\* DELETE FROM poll_votes WHERE poll_id = ? AND username = ?
DeleteVote(rows, p, u) == {r \in rows : ~(r.poll_id = p /\ r.username = u)}

\* mutant of ReplaceVote: the INSERT without the DELETE, on a table without
\* the primary key
ReplaceVoteNoDelete(rows, p, u, i) ==
    rows \cup {[poll_id |-> p, username |-> u, option_index |-> i]}

\* vote, lines 624-631: DELETE then INSERT of the voter's row.
ReplaceVote(rows, p, u, i) ==
    DeleteVote(rows, p, u) \cup {[poll_id |-> p, username |-> u, option_index |-> i]}

\* SELECT option_index FROM poll_votes WHERE poll_id = ? AND username = ?
\* (fetchone): the option of a row of the voter, or NoVote.
ExistingVote(rows, p, u) ==
    IF VoteKeyTaken(rows, p, u)
    THEN (CHOOSE r \in rows : r.poll_id = p /\ r.username = u).option_index
    ELSE NoVote

\* mutant of SameVote: the repeat-vote test never taken
SameVoteNever(existing, idx) == FALSE

\* vote, line 620: existing is not None and existing["option_index"] == idx
SameVote(existing, idx) == existing # NoVote /\ existing = idx

\* UPDATE polls SET closed = 1, updated_at = ? WHERE id = ?
CloseRow(row, t) == [row EXCEPT !.closed = TRUE, !.updated_at = t]

\* mutant of SweepRow: a poll expiring exactly now left open
SweepRowStrict(row, now) ==
    IF ~row.closed /\ row.expires_at < now THEN CloseRow(row, now) ELSE row

\* mutant of SweepRow: closed recomputed from the expiry time for every row
SweepRowRecompute(row, now) ==
    [row EXCEPT !.closed = (row.expires_at <= now),
                !.updated_at = IF row.closed = (row.expires_at <= now)
                               THEN row.updated_at ELSE now]

\* UPDATE polls SET closed = 1, updated_at = ? WHERE closed = 0 AND expires_at <= ?
SweepRow(row, now) ==
    IF ~row.closed /\ row.expires_at <= now THEN CloseRow(row, now) ELSE row

\* mutant of NotCreator: the ownership test dropped
NotCreatorNever(row, u) == FALSE

\* close_poll, line 663: row['created_by'] != user
NotCreator(row, u) == row.created_by # u

\* fetch_poll_votes: GROUP BY option_index, zero-filled, groups whose index is
\* outside 0..option_count-1 skipped.  Option i is position i + 1.
fetch_poll_votes(rows, p, option_count) ==
    [k \in 1..option_count |->
        Cardinality({r \in rows : r.poll_id = p /\ r.option_index = k - 1})]

\* poll_row_to_payload: the dict comprehension username -> option_index
Voters(rows, p) ==
    [u \in {r.username : r \in {x \in rows : x.poll_id = p}} |->
        ExistingVote(rows, p, u)]

poll_row_to_payload(tbl, rows, p) ==
    [type |-> "poll", id |-> p,
     votes |-> fetch_poll_votes(rows, p, tbl[p].nopt),
     voters |-> Voters(rows, p),
     created_at |-> tbl[p].created_at, updated_at |-> tbl[p].updated_at,
     username |-> tbl[p].created_by, closed |-> tbl[p].closed,
     expires_at |-> tbl[p].expires_at, sort_at |-> tbl[p].updated_at]

\* history: poll p has changed in the given way since its last delivery
Owe(p, kind) == [owed EXCEPT ![p] = @ \cup {kind}]

\* history: record what closed poll p, the first time it is closed
NoteClosed(p, who) ==
    IF polls[p].closed THEN closed_by ELSE [closed_by EXCEPT ![p] = who]

\* mutant of BadOptionCount: the upper bound forgotten
BadOptionCountNoUpper(n) == n < 2

\* new_poll, line 535: len(opts) < 2 or len(opts) > MAX_OPTIONS
BadOptionCount(n) == n < 2 \/ n > MAX_OPTIONS

\* new_poll, lines 533-546: validation, now = utcnow(), ensure_session.
NewPollBegin(w, u, tk, n) ==
    /\ pc[w].at = "idle"
    /\ Len(polls) + Cardinality({x \in PollSlots : pc[x].at = "poll_write"}) < MaxPolls
    /\ IF BadOptionCount(n)
       THEN /\ resp' = Reply("poll", "BadPoll")
            /\ pc' = pc
       ELSE IF ensure_session(u, tk)
       THEN /\ pc' = [pc EXCEPT ![w] = [at |-> "poll_write", user |-> u, now |-> clock,
                                        ls |-> clock, n |-> n]]
            /\ resp' = NoReply
       ELSE /\ resp' = Reply("poll", "Unauthorized")
            /\ pc' = pc
    /\ UNCHANGED <<clock, dbvars, lock, clientvars, histvars>>

\* new_poll, lines 194-197 and 547-569: UPDATE sessions, INSERT poll and
\* options, commit.
NewPollWrite(w) ==
    /\ pc[w].at = "poll_write"
    /\ lock = "none"
    /\ sessions' = TouchSession(sessions, pc[w].user, pc[w].ls)
    /\ polls' = Append(polls, [created_by |-> pc[w].user, created_at |-> pc[w].now,
                               closed |-> FALSE,
                               expires_at |-> pc[w].now + POLL_DURATION,
                               updated_at |-> pc[w].now, nopt |-> pc[w].n])
    /\ owed' = Append(owed, {"new"})
    /\ closed_by' = Append(closed_by, "nobody")
    /\ resp' = Reply("poll", "Created")
    /\ pc' = [pc EXCEPT ![w] = Idle]
    /\ UNCHANGED <<clock, nextToken, poll_votes, messages, lock, clientvars>>

\* vote, lines 592-622: BEGIN IMMEDIATE, ensure_session, the poll row, the
\* expiry/closed test, the option range test, the repeat-vote test.
VoteBegin(u, tk, p, i) ==
    /\ pc[VoteSlot].at = "idle"
    /\ lock = "none"
    /\ IF ~ensure_session(u, tk)
       THEN /\ resp' = Reply("vote", "Unauthorized")
            /\ UNCHANGED <<sessions, polls, lock, pc, owed, closed_by>>
       ELSE IF p \notin PollIds
       THEN /\ resp' = Reply("vote", "NotFound")
            /\ UNCHANGED <<sessions, polls, lock, pc, owed, closed_by>>
       ELSE IF poll_is_expired(polls[p]) \/ polls[p].closed
       THEN /\ polls' = [polls EXCEPT ![p] = CloseRow(polls[p], clock)]
            /\ sessions' = TouchSession(sessions, u, clock)
            /\ owed' = IF polls[p].closed THEN owed ELSE Owe(p, "close")
            /\ closed_by' = NoteClosed(p, "vote")
            /\ resp' = Reply("vote", "PollClosed")
            /\ UNCHANGED <<lock, pc>>
       ELSE IF ~OptionInRange(i, polls[p].nopt)
       THEN /\ resp' = Reply("vote", "NotFound")
            /\ UNCHANGED <<sessions, polls, lock, pc, owed, closed_by>>
       ELSE IF SameVote(ExistingVote(poll_votes, p, u), i)
       THEN /\ resp' = [Reply("vote", "NoContent") EXCEPT !.prev = i]
            /\ UNCHANGED <<sessions, polls, lock, pc, owed, closed_by>>
       ELSE /\ lock' = VoteSlot
            /\ pc' = [pc EXCEPT ![VoteSlot] =
                         [at |-> "vote_write", user |-> u, poll |-> p, idx |-> i,
                          ls |-> clock]]
            /\ resp' = NoReply
            /\ UNCHANGED <<sessions, polls, owed, closed_by>>
    /\ UNCHANGED <<clock, nextToken, poll_votes, messages, clientvars>>

\* vote, lines 624-637: DELETE, INSERT, UPDATE polls SET updated_at, commit.
VoteWrite ==
    /\ pc[VoteSlot].at = "vote_write"
    /\ lock = VoteSlot
    /\ LET u == pc[VoteSlot].user
           p == pc[VoteSlot].poll
       IN  /\ poll_votes' = ReplaceVote(poll_votes, p, u, pc[VoteSlot].idx)
           /\ polls' = [polls EXCEPT ![p].updated_at = clock]
           /\ sessions' = TouchSession(sessions, u, pc[VoteSlot].ls)
           /\ owed' = Owe(p, "vote")
    /\ lock' = "none"
    /\ resp' = [Reply("vote", "NoContent") EXCEPT
                   !.prev = ExistingVote(poll_votes, pc[VoteSlot].poll, pc[VoteSlot].user)]
    /\ pc' = [pc EXCEPT ![VoteSlot] = Idle]
    /\ UNCHANGED <<clock, nextToken, messages, clientvars, closed_by>>

\* close_poll, lines 655-671, one locked transaction.
ClosePoll(u, tk, p) ==
    /\ lock = "none"
    /\ IF ~ensure_session(u, tk)
       THEN /\ resp' = Reply("close", "Unauthorized")
            /\ UNCHANGED <<sessions, polls, owed, closed_by>>
       ELSE IF p \notin PollIds
       THEN /\ resp' = Reply("close", "NotFound")
            /\ UNCHANGED <<sessions, polls, owed, closed_by>>
       ELSE IF NotCreator(polls[p], u)
       THEN /\ resp' = Reply("close", "Forbidden")
            /\ UNCHANGED <<sessions, polls, owed, closed_by>>
       ELSE /\ polls' = [polls EXCEPT ![p] = CloseRow(polls[p], clock)]
            /\ sessions' = TouchSession(sessions, u, clock)
            /\ owed' = IF polls[p].closed THEN owed ELSE Owe(p, "close")
            /\ closed_by' = NoteClosed(p, u)
            /\ resp' = Reply("close", "NoContent")
    /\ UNCHANGED <<clock, nextToken, poll_votes, messages, lock, pc, clientvars>>

\* ------------------------------------------------------ synchronization feed
\* sorted(..., key = sort_at) and ORDER BY: ascending, equal keys keep their
\* order (list.sort is stable; sqlite returns equal keys in rowid order).
RECURSIVE InsertBySortAt(_, _)
InsertBySortAt(s, x) ==
    IF s = <<>> THEN <<x>>
    ELSE IF s[Len(s)].sort_at <= x.sort_at THEN Append(s, x)
    ELSE Append(InsertBySortAt(SubSeq(s, 1, Len(s) - 1), x), s[Len(s)])

RECURSIVE SortBySortAt(_)
SortBySortAt(s) ==
    IF s = <<>> THEN <<>>
    ELSE InsertBySortAt(SortBySortAt(SubSeq(s, 1, Len(s) - 1)), s[Len(s)])

\* mutant of Newer: the item at the cursor selected again
NewerOrEqual(t, since) == IF since = NoCursor THEN TRUE ELSE t >= since

\* WHERE created_at > ? / WHERE updated_at > ?, or no WHERE without a cursor
Newer(t, since) == IF since = NoCursor THEN TRUE ELSE t > since

\* lines 697-719: the chat payloads selected
ChatItems(msgs, since) ==
    LET all == [k \in 1..Len(msgs) |->
                   [type |-> "chat", id |-> k, username |-> msgs[k].username,
                    created_at |-> msgs[k].created_at, sort_at |-> msgs[k].created_at]]
    IN  SortBySortAt(SelectSeq(all, LAMBDA x : Newer(x.sort_at, since)))

\* lines 702-723: the poll payloads selected
PollItems(tbl, rows, since) ==
    LET all == [k \in 1..Len(tbl) |-> poll_row_to_payload(tbl, rows, k)]
    IN  SortBySortAt(SelectSeq(all, LAMBDA x : Newer(x.sort_at, since)))

\* line 725: sorted(chats + polls, key = sort_at)
Combined(msgs, tbl, rows, since) ==
    SortBySortAt(ChatItems(msgs, since) \o PollItems(tbl, rows, since))

ItemIds(s, kind) == {s[k].id : k \in {j \in 1..Len(s) : s[j].type = kind}}

\* get_messages, lines 682-683: now = iso_now(), before any lock is held.
FetchBegin ==
    /\ pc[Reader].at = "idle"
    /\ pc' = [pc EXCEPT ![Reader] = [at |-> "fetch_run", now |-> clock]]
    /\ resp' = NoReply
    /\ UNCHANGED <<clock, dbvars, lock, clientvars, histvars>>

\* get_messages, lines 684-728: the sweep takes the write lock, the queries
\* run in the same transaction, commit.  The polling client then stores the
\* sort_at of the last item as its cursor.
FetchRun ==
    /\ pc[Reader].at = "fetch_run"
    /\ lock = "none"
    /\ LET now == pc[Reader].now
           swept == [k \in 1..Len(polls) |-> SweepRow(polls[k], now)]
           out == Combined(messages, swept, poll_votes, cursor)
           closing == {k \in PollIds : swept[k].closed /\ ~polls[k].closed}
       IN  /\ polls' = swept
           /\ resp' = [Reply("messages", "OK") EXCEPT !.items = out]
           /\ cursor' = IF out = <<>> THEN cursor ELSE out[Len(out)].sort_at
           /\ seen' = seen \cup ItemIds(out, "chat")
           /\ owed' = [k \in 1..Len(polls) |->
                          IF k \in ItemIds(out, "poll") THEN {}
                          ELSE IF k \in closing THEN owed[k] \cup {"close"}
                          ELSE owed[k]]
           /\ closed_by' = [k \in 1..Len(polls) |->
                               IF k \in closing THEN "sweep" ELSE closed_by[k]]
    /\ pc' = [pc EXCEPT ![Reader] = Idle]
    /\ UNCHANGED <<clock, sessions, nextToken, poll_votes, messages, lock>>

\* ------------------------------------------------------------------- clock
TickTo(n) ==
    /\ clock < n
    /\ clock' = clock + 1
    /\ resp' = NoReply
    /\ UNCHANGED <<dbvars, lock, pc, clientvars, histvars>>

Tick == TickTo(MaxClock)

\* A database in which alice started a session (token 1) 12 or 18 hours ago
\* and nothing else has happened: every other table is empty.
InitSessions ==
    /\ clock = 0
    /\ \E t \in AgedTimes :
          sessions = [u \in Users |->
                         IF u = "alice" THEN [token |-> 1, last_seen |-> t]
                         ELSE NoSession]
    /\ nextToken = 2
    /\ polls = <<>>
    /\ poll_votes = {}
    /\ messages = <<>>
    /\ lock = "none"
    /\ pc = [w \in Slots |-> Idle]
    /\ resp = NoReply
    /\ cursor = NoCursor
    /\ seen = {}
    /\ owed = <<>>
    /\ closed_by = <<>>

\* The state after alice and then bob have each started a session at time 0
\* (two create_session requests from InitEmpty).
Init ==
    /\ clock = 0
    /\ sessions = [u \in Users |->
                      [token |-> IF u = "alice" THEN 1 ELSE 2, last_seen |-> 0]]
    /\ nextToken = 3
    /\ polls = <<>>
    /\ poll_votes = {}
    /\ messages = <<>>
    /\ lock = "none"
    /\ pc = [w \in Slots |-> Idle]
    /\ resp = NoReply
    /\ cursor = NoCursor
    /\ seen = {}
    /\ owed = <<>>
    /\ closed_by = <<>>

\* fewer than n messages stored or about to be inserted
MsgRoom(n) ==
    Len(messages) + Cardinality({x \in LedgerSlots : pc[x].at = "chat_write"}) < n

SessionNext ==
    \/ \E w \in SessionSlots, u \in Users : CreateSessionBegin(w, u)
    \/ \E w \in SessionSlots : CreateSessionWrite(w)

\* Requests of clients that present the token of their session: the ledger,
\* the poll engine and the feed.
Next ==
    \/ Tick
    \/ \E w \in ChatSlots, u \in Senders :
          MsgRoom(MaxMsgs) /\ ChatBegin(w, u, sessions[u].token)
    \/ \E w \in ChatSlots : ChatWrite(w)
    \/ \E w \in PollSlots, u \in Creators, n \in ValidOptionCounts :
          NewPollBegin(w, u, sessions[u].token, n)
    \/ \E w \in PollSlots : NewPollWrite(w)
    \/ \E u \in Users, p \in PollIdInputs, i \in OptionInputs :
          VoteBegin(u, sessions[u].token, p, i)
    \/ VoteWrite
    \/ \E u \in Users, p \in PollIdInputs : ClosePoll(u, sessions[u].token, p)
    \/ FetchBegin
    \/ FetchRun

Spec == Init /\ [][Next]_vars

\* Requests with any token, valid or not, and any number of options.
AnyNext ==
    \/ \E w \in ChatSlots, u \in Senders, tk \in TokenInputs :
          MsgRoom(MaxMsgs) /\ ChatBegin(w, u, tk)
    \/ \E w \in PollSlots, u \in Creators, tk \in TokenInputs, n \in OptionCounts :
          NewPollBegin(w, u, tk, n)
    \/ \E u \in Users, tk \in TokenInputs, p \in PollIdInputs, i \in OptionInputs :
          VoteBegin(u, tk, p, i)
    \/ \E u \in Users, tk \in TokenInputs, p \in PollIdInputs : ClosePoll(u, tk, p)

\* Concurrent chat requests of a client with a session, and the feed.
LedgerNext ==
    \/ Tick
    \/ \E w \in LedgerSlots, u \in Senders :
          MsgRoom(MaxLedgerMsgs) /\ ChatBegin(w, u, sessions[u].token)
    \/ \E w \in LedgerSlots : ChatWrite(w)
    \/ FetchBegin
    \/ FetchRun

SpecLedger == Init /\ [][LedgerNext]_vars

\* Poll creation with any number of options, votes and the feed.
PollsNext ==
    \/ Tick
    \/ \E w \in PollSlots, u \in Creators, n \in PollOptionCounts :
          NewPollBegin(w, u, sessions[u].token, n)
    \/ \E w \in PollSlots : NewPollWrite(w)
    \/ \E u \in Users, p \in PollIdInputs, i \in OptionInputs :
          VoteBegin(u, sessions[u].token, p, i)
    \/ VoteWrite
    \/ FetchBegin
    \/ FetchRun

SpecPolls == Init /\ [][PollsNext]_vars

\* The writers of updated_at over three clock readings: creation, votes,
\* close_poll and the sweep of the feed.
SweepNext ==
    \/ TickTo(MaxSweepClock)
    \/ \E w \in PollSlots, u \in Creators, n \in ValidOptionCounts :
          NewPollBegin(w, u, sessions[u].token, n)
    \/ \E w \in PollSlots : NewPollWrite(w)
    \/ \E u \in Users, p \in PollIds, i \in OptionInputs :
          VoteBegin(u, sessions[u].token, p, i)
    \/ VoteWrite
    \/ \E u \in Creators, p \in PollIds : ClosePoll(u, sessions[u].token, p)
    \/ FetchBegin
    \/ FetchRun

SpecSweep == Init /\ [][SweepNext]_vars

\* The second step of the requests AnyNext has begun.
WriteNext ==
    \/ \E w \in ChatSlots : ChatWrite(w)
    \/ \E w \in PollSlots : NewPollWrite(w)
    \/ VoteWrite

\* The session registry and every mutating endpoint, with any token presented.
SpecAll == InitSessions /\ [][Tick \/ SessionNext \/ AnyNext \/ WriteNext]_vars

\* =================================================================== claims
RowsOf(p) == {r \in poll_votes : r.poll_id = p}
Held(p, u) == ExistingVote(poll_votes, p, u)
OpenNow(p) == ~polls[p].closed /\ clock < polls[p].expires_at

\* C1: in every state and for every poll, the tally of the materialized poll
\* counts the mapping: votes[i] is the number of voters whose entry is i, and
\* sum(votes) is the number of entries (len(voters), the poll's rows).
C1_TallyMatchesMapping ==
    \A p \in PollIds :
        LET view == poll_row_to_payload(polls, poll_votes, p)
        IN  /\ Len(view.votes) = polls[p].nopt
            /\ \A i \in 0..(polls[p].nopt - 1) :
                   view.votes[i + 1] =
                       Cardinality({u \in DOMAIN view.voters : view.voters[u] = i})
            /\ Sum(view.votes) = Cardinality(DOMAIN view.voters)
            /\ Sum(view.votes) = Cardinality(RowsOf(p))

\* C1 witness: a poll with two voters on two different options, tallied <<1, 1>>
C1_Witness ==
    \E p \in PollIds :
        /\ Cardinality(RowsOf(p)) = 2
        /\ poll_row_to_payload(polls, poll_votes, p).votes = <<1, 1>>

\* C2: at most one row per (poll, voter) in every state, and the write of a
\* vote leaves exactly the voter's new row for that poll and no other row
\* touched (a re-vote replaces).
C2_OneEntryPerVoter ==
    /\ [](\A p \in PollIds, u \in Users :
              Cardinality({r \in RowsOf(p) : r.username = u}) <= 1)
    /\ [][VoteWrite =>
            LET u == pc[VoteSlot].user
                p == pc[VoteSlot].poll
                mine(rows) == {r \in rows : r.poll_id = p /\ r.username = u}
            IN  /\ mine(poll_votes') =
                      {[poll_id |-> p, username |-> u, option_index |-> pc[VoteSlot].idx]}
                /\ poll_votes' \ mine(poll_votes') = poll_votes \ mine(poll_votes)]_vars

\* C2 witness: a re-vote has been written: the voter held another option before
C2_Witness ==
    /\ resp.op = "vote" /\ resp.status = "NoContent"
    /\ resp.prev # NoVote
    /\ \E p \in PollIds, u \in Users : Held(p, u) \notin {NoVote, resp.prev}

\* C3: a vote by a voter with a valid session, on an open unexpired poll, for
\* the option the voter already holds succeeds and changes nothing: the rows,
\* the poll (status, updated_at) and what is still owed to the poller.
C3_RepeatVoteNoOp ==
    [][\A u \in Users, tk \in TokenInputs, p \in PollIds, i \in OptionInputs :
          (/\ ensure_session(u, tk)
           /\ OpenNow(p)
           /\ Held(p, u) = i
           /\ VoteBegin(u, tk, p, i))
          => /\ resp'.status = "NoContent"
             /\ pc'[VoteSlot].at = "idle"
             /\ poll_votes' = poll_votes
             /\ polls' = polls
             /\ owed' = owed
             /\ PollItems(polls', poll_votes', cursor) = PollItems(polls, poll_votes, cursor)
      ]_vars

\* C3 witness: a repeat vote has been answered
C3_Witness ==
    /\ resp.op = "vote" /\ resp.status = "NoContent"
    /\ resp.prev # NoVote
    /\ pc[VoteSlot].at = "idle"
    /\ \E p \in PollIds, u \in Users : Held(p, u) = resp.prev /\ ~polls[p].closed
    /\ \A p \in PollIds, u \in Users : Held(p, u) \in {NoVote, resp.prev}

\* C4: a poll is created open, and a closed poll stays closed in every step.
C4_ClosedIsTerminal ==
    [][/\ \A p \in PollIds :
             polls[p].closed => (p \in 1..Len(polls') /\ polls'[p].closed)
       /\ \A p \in 1..Len(polls') : p \notin PollIds => ~polls'[p].closed
      ]_vars

\* C4 witness: a vote has been refused on a poll that something else closed
C4_Witness ==
    /\ resp.op = "vote" /\ resp.status = "PollClosed"
    /\ \E p \in PollIds : polls[p].closed /\ closed_by[p] = "sweep"

\* C5: a vote with a valid session on an existing poll that is closed or has
\* now >= expires_at is refused with PollClosed, leaves the rows unchanged and
\* the poll closed; the rows of a closed poll never change; a vote goes on to
\* be written only if the poll was open with now < expires_at at the check.
C5_ClosedPollRefusesVotes ==
    [][/\ \A u \in Users, tk \in TokenInputs, p \in PollIds, i \in OptionInputs :
             (/\ ensure_session(u, tk)
              /\ (polls[p].closed \/ clock >= polls[p].expires_at)
              /\ VoteBegin(u, tk, p, i))
             => /\ resp'.status = "PollClosed"
                /\ poll_votes' = poll_votes
                /\ polls'[p].closed
                /\ pc'[VoteSlot].at = "idle"
       /\ \A p \in PollIds :
             polls[p].closed => {r \in poll_votes' : r.poll_id = p} = RowsOf(p)
       /\ (pc[VoteSlot].at = "idle" /\ pc'[VoteSlot].at = "vote_write")
             => OpenNow(pc'[VoteSlot].poll)
       /\ poll_votes' # poll_votes
             => (pc[VoteSlot].at = "vote_write" /\ ~polls[pc[VoteSlot].poll].closed)
      ]_vars

\* C5 witness: a vote on an expired poll has closed it and been refused
C5_Witness ==
    /\ resp.op = "vote" /\ resp.status = "PollClosed"
    /\ \E p \in PollIds : closed_by[p] = "vote" /\ RowsOf(p) # {}
\* C6: close_poll by the creator on a poll that is already closed succeeds and
\* leaves the stored poll (status and updated_at) as it was.
C6_CloseIsIdempotent ==
    [][\A u \in Users, tk \in TokenInputs, p \in PollIds :
          (/\ ensure_session(u, tk)
           /\ polls[p].created_by = u
           /\ polls[p].closed
           /\ ClosePoll(u, tk, p))
          => /\ resp'.status = "NoContent"
             /\ polls'[p] = polls[p]
      ]_vars

\* C7: close_poll with a valid session is refused with NotFound for an absent
\* poll and with Forbidden for a requester who is not created_by, leaving the
\* polls and the rows unchanged; and a poll that is closed while now is before
\* its expires_at was closed by a close_poll of its creator.
C7_OnlyCreatorCloses ==
    /\ [](\A p \in PollIds :
              (polls[p].closed /\ clock < polls[p].expires_at)
              => closed_by[p] = polls[p].created_by)
    /\ [][\A u \in Users, tk \in TokenInputs, p \in PollIdInputs :
             (/\ ensure_session(u, tk)
              /\ (p \notin PollIds \/ polls[p].created_by # u)
              /\ ClosePoll(u, tk, p))
             => /\ resp'.status = IF p \in PollIds THEN "Forbidden" ELSE "NotFound"
                /\ polls' = polls
                /\ poll_votes' = poll_votes
         ]_vars

\* C7 witness: after the creator closed a poll before its expiry, a close by
\* someone else has been refused
C7_Witness ==
    /\ resp.op = "close" /\ resp.status = "Forbidden"
    /\ \E p \in PollIds : /\ polls[p].closed /\ clock < polls[p].expires_at
                          /\ closed_by[p] = polls[p].created_by

\* C8: a fetch of the poller never returns a chat message it returned before,
\* returns a poll only if its updated_at is greater than the cursor passed, and,
\* when the poller has been delivered every message and every poll and one
\* poll has since received a new vote, returns exactly that poll.
C8_FeedMonotonic ==
    [][FetchRun =>
          LET out == resp'.items
          IN  /\ ItemIds(out, "chat") \cap seen = {}
              /\ cursor # NoCursor =>
                    \A k \in 1..Len(out) : out[k].sort_at > cursor
              /\ \A p \in PollIds :
                    (/\ cursor # NoCursor
                     /\ seen = 1..Len(messages)
                     /\ owed[p] = {"vote"}
                     /\ \A q \in PollIds \ {p} : owed[q] = {})
                    => /\ Len(out) = 1
                       /\ out[1].type = "poll" /\ out[1].id = p
      ]_vars

\* C9: a fetch of the poller delivers a poll only if the poll is new or its
\* rows or its closed flag changed since its previous delivery.
C9_OncePerChange ==
    [][FetchRun =>
          \A p \in ItemIds(resp'.items, "poll") :
              owed[p] # {} \/ (polls'[p].closed /\ ~polls[p].closed)
      ]_vars

\* C10: every committed chat message not yet delivered to the poller, and
\* every poll with a change not yet delivered, has a sort_at greater than the
\* cursor the poller holds.
C10_NothingLost ==
    /\ \A m \in 1..Len(messages) :
           m \notin seen => Newer(messages[m].created_at, cursor)
    /\ \A p \in PollIds :
           owed[p] # {} => Newer(polls[p].updated_at, cursor)

\* C11: an item the poller has not been delivered never has the sort_at the
\* poller's cursor holds (the cursor never decreases and fetch asks for
\* sort_at > cursor, so such an item would be delivered by no later fetch).
C11_BoundaryNotDropped ==
    cursor # NoCursor =>
        /\ \A m \in 1..Len(messages) :
               m \notin seen => messages[m].created_at # cursor
        /\ \A p \in PollIds :
               owed[p] # {} => polls[p].updated_at # cursor

\* C12: a create_session step for an identity whose session is live (now -
\* last_seen < SESSION_TTL) issues no token and leaves the session row, and so
\* its token, as it is: whether the step is the request's SELECT or, for a
\* request that raced with another one, its DELETE and INSERT.
C12_LiveSessionKept ==
    [][\A w \in SessionSlots, u \in Users :
          (/\ sessions[u] # NoSession
           /\ clock - sessions[u].last_seen < SESSION_TTL
           /\ \/ CreateSessionBegin(w, u)
              \/ (pc[w].at = "session_write" /\ pc[w].user = u /\ CreateSessionWrite(w)))
          => /\ sessions'[u] = sessions[u]
             /\ resp'.status # "Token"
      ]_vars

\* C13: create_session for an identity whose session row is stale (now -
\* last_seen >= SESSION_TTL) is not refused; its write answers with a token
\* never issued before and stores it with last_seen = now; and a token that is
\* not the stored one is never accepted by ensure_session.
C13_StaleSessionReplaced ==
    /\ [](\A u \in Users, tk \in TokenInputs :
              tk # sessions[u].token => ~ensure_session(u, tk))
    /\ [][\A w \in SessionSlots, u \in Users :
             (/\ sessions[u] # NoSession
              /\ clock - sessions[u].last_seen >= SESSION_TTL)
             => /\ CreateSessionBegin(w, u)
                   => (resp'.status # "Conflict" /\ pc'[w].at = "session_write")
                /\ (pc[w].at = "session_write" /\ pc[w].user = u /\ CreateSessionWrite(w))
                   => /\ resp'.status = "Token"
                      /\ sessions'[u].token \notin 0..(nextToken - 1)
                      /\ sessions'[u].last_seen = clock
         ]_vars

\* C14: a request is refused as Unauthorized exactly when its token is missing,
\* no session row exists, the stored token differs, or now - last_seen >=
\* SESSION_TTL; and create_session answers Conflict exactly when a row exists
\* with now - last_seen < SESSION_TTL.
C14_FailsClosedAtBoundary ==
    [][/\ \A u \in Users, tk \in TokenInputs, p \in PollIdInputs :
             ClosePoll(u, tk, p)
             => (resp'.status = "Unauthorized"
                    <=> ~(/\ tk # NoToken
                          /\ sessions[u] # NoSession
                          /\ sessions[u].token = tk
                          /\ clock - sessions[u].last_seen < SESSION_TTL))
       /\ \A w \in SessionSlots, u \in Users :
             CreateSessionBegin(w, u)
             => (resp'.status = "Conflict"
                    <=> (/\ sessions[u] # NoSession
                         /\ clock - sessions[u].last_seen < SESSION_TTL))
      ]_vars

\* C15: after a chat, new_poll, vote or close_poll request that presented the
\* stored token of a session ensure_session found stale, the sessions table
\* holds no row for that identity.
C15_StaleSessionDeleted ==
    [][\A u \in Users, tk \in TokenInputs :
          (/\ tk # NoToken
           /\ sessions[u] # NoSession
           /\ sessions[u].token = tk
           /\ SessionStale(sessions[u], clock)
           /\ \/ \E w \in ChatSlots : ChatBegin(w, u, tk)
              \/ \E w \in PollSlots, n \in ValidOptionCounts : NewPollBegin(w, u, tk, n)
              \/ \E p \in PollIdInputs, i \in OptionInputs : VoteBegin(u, tk, p, i)
              \/ \E p \in PollIdInputs : ClosePoll(u, tk, p))
          => /\ resp'.status = "Unauthorized"
             /\ sessions'[u] = NoSession
      ]_vars

\* C16: when a vote or close_poll request that presented the token of a live
\* session (accepted by ensure_session, now - last_seen < SESSION_TTL) has been
\* answered, whatever the answer, the stored last_seen of the session is the
\* time of that validation.
C16_ValidationRefreshes ==
    [][\A u \in Users, tk \in TokenInputs :
          (/\ ensure_session(u, tk)
           /\ clock - sessions[u].last_seen < SESSION_TTL
           /\ \/ \E p \in PollIdInputs, i \in OptionInputs :
                    VoteBegin(u, tk, p, i) /\ pc'[VoteSlot].at = "idle"
              \/ \E p \in PollIdInputs : ClosePoll(u, tk, p))
          => sessions'[u].last_seen = clock
      ]_vars

\* C17: a chat, new_poll, vote or close_poll request whose token is missing,
\* is not the stored one, or belongs to a session with now - last_seen >=
\* SESSION_TTL is answered Unauthorized, begins no write and leaves messages,
\* polls and poll_votes unchanged; and those tables change only in the write
\* step of a request that passed ensure_session, or in a validated vote or
\* close_poll.
C17_NoMutationWithoutSession ==
    [][/\ \A u \in Users, tk \in TokenInputs :
             (/\ ~(/\ tk # NoToken
                   /\ sessions[u] # NoSession
                   /\ sessions[u].token = tk
                   /\ clock - sessions[u].last_seen < SESSION_TTL)
              /\ \/ \E w \in ChatSlots : ChatBegin(w, u, tk)
                 \/ \E w \in PollSlots, n \in ValidOptionCounts : NewPollBegin(w, u, tk, n)
                 \/ \E p \in PollIdInputs, i \in OptionInputs : VoteBegin(u, tk, p, i)
                 \/ \E p \in PollIdInputs : ClosePoll(u, tk, p))
             => /\ resp'.status = "Unauthorized"
                /\ pc' = pc
                /\ <<messages, polls, poll_votes>>' = <<messages, polls, poll_votes>>
       /\ messages' # messages => \E w \in ChatSlots : pc[w].at = "chat_write"
       /\ poll_votes' # poll_votes => pc[VoteSlot].at = "vote_write"
       /\ polls' # polls =>
             \/ \E w \in PollSlots : pc[w].at = "poll_write"
             \/ pc[VoteSlot].at = "vote_write"
             \/ resp'.status \in {"PollClosed", "NoContent"}
      ]_vars

\* C18: when a fetch completes, every stored poll whose expires_at is at or
\* before the time the fetch read (its now) is closed in the store, and every
\* poll item of the response with such an expires_at says closed.
C18_LazyExpiryOnRead ==
    [][FetchRun =>
          LET now == pc[Reader].now
              out == resp'.items
          IN  /\ \A p \in PollIds : polls[p].expires_at <= now => polls'[p].closed
              /\ \A k \in 1..Len(out) :
                    (out[k].type = "poll" /\ out[k].expires_at <= now) => out[k].closed
      ]_vars

\* C18 witness: a fetch has closed an expired poll and returned it closed
C18_Witness ==
    /\ resp.op = "messages"
    /\ \E k \in 1..Len(resp.items) :
          /\ resp.items[k].type = "poll"
          /\ resp.items[k].closed
          /\ closed_by[resp.items[k].id] = "sweep"
          /\ resp.items[k].expires_at <= clock

\* C19: a fetch returns exactly the chat messages with created_at > cursor and
\* the polls (as stored when it completes) with updated_at > cursor, all of
\* them without a cursor, each once, with sort_at = created_at for a chat item
\* and updated_at for a poll item, in ascending order of sort_at, a chat item
\* before a poll item of the same sort_at.
C19_FetchExactlyNewer ==
    [][FetchRun =>
          LET out == resp'.items
              chats == {m \in 1..Len(messages) :
                           cursor = NoCursor \/ messages[m].created_at > cursor}
              pls == {p \in PollIds :
                         cursor = NoCursor \/ polls'[p].updated_at > cursor}
          IN  /\ ItemIds(out, "chat") = chats
              /\ ItemIds(out, "poll") = pls
              /\ Len(out) = Cardinality(chats) + Cardinality(pls)
              /\ \A k \in 1..Len(out) :
                    out[k].sort_at = IF out[k].type = "chat"
                                     THEN messages[out[k].id].created_at
                                     ELSE polls'[out[k].id].updated_at
              /\ \A j, k \in 1..Len(out) :
                    j < k => /\ out[j].sort_at <= out[k].sort_at
                             /\ (out[j].sort_at = out[k].sort_at /\ out[j].type # out[k].type)
                                   => out[j].type = "chat"
      ]_vars

\* C19 witness: a fetch with a cursor has returned one item and left out the
\* other, older one
C19_Witness ==
    /\ resp.op = "messages"
    /\ Len(resp.items) = 1
    /\ Len(messages) = 1 /\ Len(polls) = 1
    /\ \/ resp.items[1].type = "poll" /\ messages[1].created_at < cursor
       \/ resp.items[1].type = "chat" /\ polls[1].updated_at < cursor

\* C20: stored messages are in the order of their created_at (a smaller id has
\* the smaller or equal created_at), and every step keeps every stored message
\* as it is: the table only grows at its end.
C20_LedgerAppendOnlyOrdered ==
    /\ [](\A j, k \in 1..Len(messages) :
              j < k => messages[j].created_at <= messages[k].created_at)
    /\ [][/\ Len(messages') >= Len(messages)
          /\ \A m \in 1..Len(messages) : messages'[m] = messages[m]]_vars

\* C20 witness: two chat requests overlapped: the one that has just inserted
\* the second message was validated before the first message was stamped
C20_Witness ==
    /\ Len(messages) = 2
    /\ messages[1].created_at <= messages[2].created_at
    /\ sessions["bob"].last_seen < messages[1].created_at
    /\ resp.op = "chat"

\* C21: the write of new_poll answers Created and adds one poll that is open,
\* has created_at = the time the request read, expires_at = created_at +
\* POLL_DURATION, updated_at = created_at, the number of options asked for,
\* between 2 and MAX_OPTIONS, and a tally of that many zeros; every stored
\* poll has between 2 and MAX_OPTIONS options; and every poll item a fetch
\* returns has one tally entry per option the poll was created with.
C21_PollCreatedWhole ==
    /\ [](\A p \in PollIds : 2 <= polls[p].nopt /\ polls[p].nopt <= MAX_OPTIONS)
    /\ [][/\ \A w \in PollSlots :
                (pc[w].at = "poll_write" /\ NewPollWrite(w))
                => LET p == Len(polls')
                       row == polls'[p]
                   IN  /\ p = Len(polls) + 1
                       /\ resp'.status = "Created"
                       /\ ~row.closed
                       /\ row.created_at = pc[w].now
                       /\ row.expires_at = row.created_at + POLL_DURATION
                       /\ row.updated_at = row.created_at
                       /\ row.nopt = pc[w].n
                       /\ poll_row_to_payload(polls', poll_votes', p).votes
                             = [k \in 1..pc[w].n |-> 0]
                       /\ \A q \in PollIds : polls'[q] = polls[q]
          /\ FetchRun
                => \A k \in 1..Len(resp'.items) :
                      resp'.items[k].type = "poll"
                      => Len(resp'.items[k].votes) = polls'[resp'.items[k].id].nopt
          /\ \A p \in PollIds : polls'[p].nopt = polls[p].nopt
         ]_vars

\* C21 witness: a poll with MAX_OPTIONS options has been created and a fetch
\* has returned it with its six tally entries
C21_Witness ==
    /\ resp.op = "messages"
    /\ \E k \in 1..Len(resp.items) :
          /\ resp.items[k].type = "poll"
          /\ Len(resp.items[k].votes) = MAX_OPTIONS
          /\ polls[resp.items[k].id].nopt = MAX_OPTIONS

\* C22: the write of a vote for option j by a voter who held i (or nothing)
\* leaves the voter's entry at j, takes one from tally[i] (if any), adds one to
\* tally[j], leaves every other tally entry, every other voter's entry and
\* every other poll's rows as they were, adds one to the total for a first
\* vote, and leaves the poll with a strictly greater updated_at.
C22_VoteMovesOneCount ==
    [][VoteWrite =>
          LET u == pc[VoteSlot].user
              p == pc[VoteSlot].poll
              j == pc[VoteSlot].idx
              i == ExistingVote(poll_votes, p, u)
              before == poll_row_to_payload(polls, poll_votes, p).votes
              after == poll_row_to_payload(polls', poll_votes', p).votes
          IN  /\ i # j
              /\ ExistingVote(poll_votes', p, u) = j
              /\ \A k \in 0..(polls[p].nopt - 1) :
                    after[k + 1] = before[k + 1] + (IF k = j THEN 1 ELSE 0)
                                                 - (IF k = i THEN 1 ELSE 0)
              /\ i = NoVote => Sum(after) = Sum(before) + 1
              /\ i # NoVote => Sum(after) = Sum(before)
              /\ \A v \in Users \ {u} :
                    ExistingVote(poll_votes', p, v) = ExistingVote(poll_votes, p, v)
              /\ {r \in poll_votes' : r.poll_id # p} = {r \in poll_votes : r.poll_id # p}
              /\ polls'[p].updated_at > polls[p].updated_at
      ]_vars

\* C23: in every state a poll's updated_at is at least its created_at, and no
\* step lowers the updated_at of a stored poll.
C23_UpdatedAtNeverDecreases ==
    /\ [](\A p \in PollIds : polls[p].updated_at >= polls[p].created_at)
    /\ [][\A p \in PollIds : polls'[p].updated_at >= polls[p].updated_at]_vars

\* C24: every stored vote row names a stored poll and an option index from 0
\* to the poll's number of options less one; and a vote with a valid session
\* for a poll id that is not stored, or for an index outside that range on an
\* open unexpired poll, is answered NotFound and leaves the rows and the polls
\* (so updated_at) as they were.
C24_VotesInRange ==
    /\ [](\A r \in poll_votes :
              /\ r.poll_id \in PollIds
              /\ 0 <= r.option_index
              /\ r.option_index < polls[r.poll_id].nopt)
    /\ [][\A u \in Users, tk \in TokenInputs, p \in PollIdInputs, i \in OptionInputs :
             (/\ ensure_session(u, tk)
              /\ \/ p \notin PollIds
                 \/ (OpenNow(p) /\ ~(0 <= i /\ i < polls[p].nopt))
              /\ VoteBegin(u, tk, p, i))
             => /\ resp'.status = "NotFound"
                /\ pc'[VoteSlot].at = "idle"
                /\ poll_votes' = poll_votes
                /\ polls' = polls
         ]_vars

\* C24 witness: a vote has been answered NotFound while the only poll is open
\* and holds a vote
C24_Witness ==
    /\ resp.op = "vote" /\ resp.status = "NotFound"
    /\ \E p \in PollIds : OpenNow(p) /\ RowsOf(p) # {}
====
